---- MODULE Spec2Model ----
(***************************************************************************)
(* Model of the INSAMAR sales dashboard (src/app.py): the tolerant column  *)
(* resolution of load_data_from_excel, the date/numeric normalisation of   *)
(* its rows, and the filter / KPI / summary computation of one script run. *)
(*                                                                         *)
(* Text is modelled as a sequence of characters (one-character strings;    *)
(* the accented letters of the Spanish headers are the symbols "oacute",   *)
(* "uacute", "ntilde" and their capitals), so that lower-casing, exact comparison    *)
(* and substring search are computed, not assumed.                         *)
(***************************************************************************)
EXTENDS Integers, Sequences, FiniteSets, TLC

\* ------------------------------------------------------------------ text

\* str.lower() on the letters that occur in headers and search texts.
LowerOf ==
  [A |-> "a", B |-> "b", C |-> "c", D |-> "d", E |-> "e", F |-> "f", G |-> "g",
   H |-> "h", I |-> "i", J |-> "j", K |-> "k", L |-> "l", M |-> "m", N |-> "n",
   O |-> "o", P |-> "p", Q |-> "q", R |-> "r", S |-> "s", T |-> "t", U |-> "u",
   V |-> "v", W |-> "w", X |-> "x", Y |-> "y", Z |-> "z",
   Oacute |-> "oacute", Uacute |-> "uacute"]

UpperCase ==
  DOMAIN LowerOf

LowerChar(ch) ==
  IF ch \in UpperCase THEN LowerOf[ch] ELSE ch

\* A function over 1..n as the sequence it is.
AsSeq(f) ==
  SubSeq(f, 1, Len(f))

Lower(s) ==
  AsSeq([i \in 1..Len(s) |-> LowerChar(s[i])])

\* Python's `a in b` on strings: a occurs in b as a contiguous run.
Contains(b, a) ==
  \E off \in 0..(Len(b) - Len(a)) : SubSeq(b, off + 1, off + Len(a)) = a

\* Python's None, as returned by _safe_col. No header of a sheet read by
\* read_excel is the empty string (blank headers are named "Unnamed: n").
None ==
  << >>

\* --------------------------------------------------- canonical schema

Fecha ==
  <<"F","e","c","h","a">>
Documento ==
  <<"D","o","c","u","m","e","n","t","o">>
CodCliente ==
  <<"C","o","d","C","l","i","e","n","t","e">>
Cliente ==
  <<"C","l","i","e","n","t","e">>
Vendedor ==
  <<"V","e","n","d","e","d","o","r">>
ItemCode ==
  <<"I","t","e","m","C","o","d","e">>
Producto ==
  <<"P","r","o","d","u","c","t","o">>
Cantidad ==
  <<"C","a","n","t","i","d","a","d">>
PrecioUnit ==
  <<"P","r","e","c","i","o","U","n","i","t">>
VentaCLP ==
  <<"V","e","n","t","a","C","L","P">>
Anio ==
  <<"A","ntilde","o">>
Mes ==
  <<"M","e","s">>
Trimestre ==
  <<"T","r","i","m","e","s","t","r","e">>
TicketPromCLP ==
  <<"T","i","c","k","e","t","P","r","o","m","C","L","P">>

\* Candidate headers of the date column (line 163).
DateCandidates ==
  << <<"F","e","c","h","a"," ","d","e"," ","c","o","n","t","a","b","i","l","i","z","a","c","i","oacute","n">>, <<"F","e","c","h","a">> >>

\* The nine rename_map assignments of lines 179-187, in source order.
FieldCandidates ==
  << [target |-> Documento,
      cands |-> << <<"N","uacute","m","e","r","o"," ","i","n","t","e","r","n","o">>, <<"N","u","m","e","r","o"," ","i","n","t","e","r","n","o">>, <<"D","o","c","N","u","m">>, <<"D","o","c","u","m","e","n","t","o">> >>],
     [target |-> CodCliente,
      cands |-> << <<"C","oacute","d","i","g","o"," ","d","e"," ","c","l","i","e","n","t","e","/","p","r","o","v","e","e","d","o","r">>, <<"C","o","d","i","g","o"," ","d","e"," ","c","l","i","e","n","t","e">>, <<"C","a","r","d","C","o","d","e">> >>],
     [target |-> Cliente,
      cands |-> << <<"N","o","m","b","r","e"," ","d","e"," ","c","l","i","e","n","t","e","/","p","r","o","v","e","e","d","o","r">>, <<"N","o","m","b","r","e"," ","d","e"," ","c","l","i","e","n","t","e">>, <<"C","a","r","d","N","a","m","e">> >>],
     [target |-> Vendedor,
      cands |-> << <<"S","l","p","N","a","m","e">>, <<"V","e","n","d","e","d","o","r">>, <<"E","j","e","c","u","t","i","v","o">> >>],
     [target |-> ItemCode,
      cands |-> << <<"I","t","e","m","C","o","d","e">>, <<"C","o","d","i","g","o"," ","i","t","e","m">>, <<"I","t","e","m">> >>],
     [target |-> Producto,
      cands |-> << <<"D","s","c","r","i","p","t","i","o","n">>, <<"D","e","s","c","r","i","p","c","i","o","n">>, <<"D","e","s","c","r","i","p","t","i","o","n">> >>],
     [target |-> Cantidad,
      cands |-> << <<"Q","u","a","n","t","i","t","y">>, <<"C","a","n","t","i","d","a","d">> >>],
     [target |-> PrecioUnit,
      cands |-> << <<"P","r","i","c","e">>, <<"P","r","e","c","i","o">> >>],
     [target |-> VentaCLP,
      cands |-> << <<"V","e","n","t","a">>, <<"T","o","t","a","l">>, <<"M","o","n","t","o">> >>] >>

\* The minimal columns of line 193.
required ==
  << Fecha, Documento, Cliente, Vendedor, Producto, Cantidad, PrecioUnit, VentaCLP >>

\* ------------------------------------------------------------ _safe_col

\* c.lower() for every column of df.columns, in column order.
RECURSIVE LowerAll(_)
LowerAll(cols) ==
  IF cols = << >> THEN << >> ELSE << Lower(Head(cols)) >> \o LowerAll(Tail(cols))

\* cols = {c.lower(): c for c in df.columns}, looked up at key: of several
\* columns with the same lower-cased name the last one is kept. low is
\* LowerAll(cols).
LowerDict(cols, low, key) ==
  LET hits == {j \in 1..Len(cols) : low[j] = key}
  IN  IF hits = {} THEN None ELSE cols[CHOOSE j \in hits : \A k \in hits : k <= j]

\* First loop of _safe_col: candidates in order, exact lower-cased match.
RECURSIVE ExactLoop(_, _, _, _)
ExactLoop(cols, low, candidates, n) ==
  IF n > Len(candidates) THEN None
  ELSE LET hit == LowerDict(cols, low, Lower(candidates[n]))
       IN  IF hit # None THEN hit ELSE ExactLoop(cols, low, candidates, n + 1)

\* Inner loop of the "fuzzy contains" pass: columns in their original order.
RECURSIVE ColumnLoop(_, _, _, _)
ColumnLoop(cols, low, cand, j) ==
  IF j > Len(cols) THEN None
  ELSE IF Contains(low[j], cand) THEN cols[j]
       ELSE ColumnLoop(cols, low, cand, j + 1)

\* FuzzyLoop with its two loops exchanged: the first column that contains any
\* candidate.
RECURSIVE FuzzyByColumn(_, _, _, _)
FuzzyByColumn(cols, low, candidates, n) ==
  IF n > Len(cols) THEN None
  ELSE IF \E c \in 1..Len(candidates) : Contains(low[n], Lower(candidates[c]))
       THEN cols[n]
       ELSE FuzzyByColumn(cols, low, candidates, n + 1)

\* Outer loop of the "fuzzy contains" pass: candidates in order.
RECURSIVE FuzzyLoop(_, _, _, _)
FuzzyLoop(cols, low, candidates, n) ==
  IF n > Len(candidates) THEN None
  ELSE LET hit == ColumnLoop(cols, low, Lower(candidates[n]), 1)
       IN  IF hit # None THEN hit ELSE FuzzyLoop(cols, low, candidates, n + 1)

_safe_col(cols, candidates) ==
  LET low == LowerAll(cols)
      exact == ExactLoop(cols, low, candidates, 1)
  IN  IF exact # None THEN exact ELSE FuzzyLoop(cols, low, candidates, 1)

\* ----------------------------------------------------------------- cells

\* A cell of a DataFrame. k is "na" (NaN / NaT / None), "num" (the number
\* n/d; d = 1 for the integers of a sheet), "str" (the text s) or "date"
\* (the calendar day n, written YYYYMMDD so that days order as integers).
NA ==
  [k |-> "na", n |-> 0, d |-> 1, s |-> << >>]

Num(x) ==
  [k |-> "num", n |-> x, d |-> 1, s |-> << >>]

Ratio(x, y) ==
  [k |-> "num", n |-> x, d |-> y, s |-> << >>]

Str(t) ==
  [k |-> "str", n |-> 0, d |-> 1, s |-> t]

Date(x) ==
  [k |-> "date", n |-> x, d |-> 1, s |-> << >>]

\* pd.to_datetime(..., errors="coerce") on one cell: dates stay, numbers are
\* nanoseconds after 1970-01-01, text that is no date (all text of the modelled
\* sheets) and missing cells become NaT.
to_datetime(c) ==
  CASE c.k = "date" -> c
    [] c.k = "num" -> Date(19700101)
    [] OTHER -> NA

\* pd.to_numeric(..., errors="coerce").fillna(0) on one cell: numbers stay,
\* text that is no number (all text of the modelled sheets) and missing
\* cells become 0, a date becomes its integer representation.
to_numeric(c) ==
  CASE c.k = "num" -> c
    [] c.k = "date" -> Num(c.n)
    [] OTHER -> Num(0)

\* ------------------------------------------------------- DataFrame access

HasColumn(cols, name) ==
  \E j \in 1..Len(cols) : cols[j] = name

Count(cols, name) ==
  Cardinality({j \in 1..Len(cols) : cols[j] = name})

ColIndex(cols, name) ==
  CHOOSE j \in 1..Len(cols) : cols[j] = name /\ \A k \in 1..(j - 1) : cols[k] # name

\* df[name] for one row.
Cell(cols, row, name) ==
  row[ColIndex(cols, name)]

\* df.rename(columns={old: new}): every column called old is renamed.
RenameColumn(cols, old, new) ==
  AsSeq([j \in 1..Len(cols) |-> IF cols[j] = old THEN new ELSE cols[j]])

\* df[name] = F(df, row): overwrites the column in place, or appends it.
AssignColumn(t, name, F(_, _)) ==
  IF HasColumn(t.columns, name)
  THEN [columns |-> t.columns,
        rows |-> AsSeq([i \in 1..Len(t.rows) |->
                    [t.rows[i] EXCEPT ![ColIndex(t.columns, name)] = F(t.columns, t.rows[i])]])]
  ELSE [columns |-> Append(t.columns, name),
        rows |-> AsSeq([i \in 1..Len(t.rows) |-> Append(t.rows[i], F(t.columns, t.rows[i]))])]

\* ------------------------------------------------- load_data_from_excel

\* Lines 170-176: the fallback scan for a column whose name contains "fecha".
RECURSIVE DateFallback(_, _, _)
DateFallback(cols, rws, c) ==
  IF c > Len(cols) THEN [columns |-> cols, rows |-> rws]
  ELSE IF Contains(Lower(cols[c]), <<"f","e","c","h","a">>)
       THEN LET parsed == AsSeq([i \in 1..Len(rws) |-> [rws[i] EXCEPT ![c] = to_datetime(@)]])
                NotNa(r) == r[c].k # "na"
            IN  IF \E i \in 1..Len(parsed) : NotNa(parsed[i])
                THEN [columns |-> RenameColumn(cols, cols[c], Fecha),
                      rows |-> SelectSeq(parsed, NotNa)]
                ELSE DateFallback(cols, parsed, c + 1)
       ELSE DateFallback(cols, rws, c + 1)

\* DateStep without line 166: the rows whose date did not parse are kept.
ParseKeepingNaT(cols, rws, col_date) ==
  IF col_date # None
  THEN [columns |-> RenameColumn(cols, col_date, Fecha),
        rows |-> AsSeq([i \in 1..Len(rws) |->
                    [rws[i] EXCEPT ![ColIndex(cols, col_date)] = to_datetime(@)]])]
  ELSE DateFallback(cols, rws, 1)

DateStepKeepingNaT(cols, rws) ==
  ParseKeepingNaT(cols, rws, _safe_col(cols, DateCandidates))

\* Lines 164-176 for the column that line 163 resolved: parse it, drop the
\* rows without a date, rename it to "Fecha"; or the fallback scan.
ParseDates(cols, rws, col_date) ==
  IF col_date # None
  THEN LET c == ColIndex(cols, col_date)
           NotNa(r) == r[c].k # "na"
       IN  [columns |-> RenameColumn(cols, col_date, Fecha),
            rows |-> SelectSeq(AsSeq([i \in 1..Len(rws) |->
                                       [rws[i] EXCEPT ![c] = to_datetime(@)]]), NotNa)]
  ELSE DateFallback(cols, rws, 1)

\* Lines 163-176.
DateStep(cols, rws) ==
  ParseDates(cols, rws, _safe_col(cols, DateCandidates))

\* Lines 178-190: rename_map is a dict keyed by the resolved column, so a later
\* assignment to the same key replaces an earlier one, and the None key is
\* dropped; rename then maps every column that is a key.
RECURSIVE RenameKeys(_, _)
RenameKeys(cols, f) ==
  IF f > Len(FieldCandidates) THEN << >>
  ELSE << _safe_col(cols, FieldCandidates[f].cands) >> \o RenameKeys(cols, f + 1)

RenameStep(cols) ==
  LET key == RenameKeys(cols, 1)
      Hits(name) == {f \in 1..Len(FieldCandidates) : key[f] = name}
      Last(fs) == CHOOSE f \in fs : \A g \in fs : g <= f
  IN  AsSeq([j \in 1..Len(cols) |->
               IF Hits(cols[j]) = {} THEN cols[j]
               ELSE FieldCandidates[Last(Hits(cols[j]))].target])

\* Lines 193-194.
MissingColumns(cols) ==
  LET Absent(c) == ~ HasColumn(cols, c)
  IN  SelectSeq(required, Absent)

\* Lines 199-201: df[name] on a name carried by two columns is a DataFrame,
\* which pd.to_numeric rejects with a TypeError.
AmbiguousNumeric(cols) ==
  \E c \in {Cantidad, PrecioUnit, VentaCLP} : Count(cols, c) > 1

\* Line 204: df["Fecha"] on two columns is a DataFrame, which has no .dt.
AmbiguousDate(cols) ==
  Count(cols, Fecha) > 1

\* Text of an integer, zero-padded to w digits.
Digit ==
  << "0", "1", "2", "3", "4", "5", "6", "7", "8", "9" >>

RECURSIVE Digits(_, _)
Digits(x, w) ==
  IF w = 0 THEN << >> ELSE Append(Digits(x \div 10, w - 1), Digit[(x % 10) + 1])

YearOf(day) ==
  day \div 10000

MonthOf(day) ==
  (day \div 100) % 100

\* dt.to_period("M").astype(str): "YYYY-MM".
MonthText(day) ==
  Digits(YearOf(day), 4) \o << "-" >> \o Digits(MonthOf(day), 2)

\* dt.to_period("Q").astype(str): "YYYYQn".
QuarterText(day) ==
  Digits(YearOf(day), 4) \o << "Q" >> \o Digits(((MonthOf(day) - 1) \div 3) + 1, 1)

\* The right-hand sides of lines 199-207 for one row.
QtyNum(cols, r) ==
  to_numeric(Cell(cols, r, Cantidad))

PriceNum(cols, r) ==
  to_numeric(Cell(cols, r, PrecioUnit))

SaleNum(cols, r) ==
  to_numeric(Cell(cols, r, VentaCLP))

Year(cols, r) ==
  Num(YearOf(Cell(cols, r, Fecha).n))

Month(cols, r) ==
  Str(MonthText(Cell(cols, r, Fecha).n))

Quarter(cols, r) ==
  Str(QuarterText(Cell(cols, r, Fecha).n))

Ticket(cols, r) ==
  IF Cell(cols, r, Cantidad).n > 0
  THEN Ratio(Cell(cols, r, VentaCLP).n, Cell(cols, r, Cantidad).n)
  ELSE NA

\* Lines 199-201 on a table that has every required column.
Types(t) ==
  AssignColumn(AssignColumn(AssignColumn(t, Cantidad, QtyNum), PrecioUnit, PriceNum),
               VentaCLP, SaleNum)

\* Lines 199-207.
TypesAndDerived(t) ==
  AssignColumn(AssignColumn(AssignColumn(AssignColumn(Types(t), Anio, Year), Mes, Month),
                            Trimestre, Quarter),
               TicketPromCLP, Ticket)

\* Line 209: the DataFrame returned.
Returned(out) ==
  [raised |-> "no", missing |-> << >>, columns |-> out.columns, rows |-> out.rows]

\* An exception leaving the function.
Raised(kind, missing) ==
  [raised |-> kind, missing |-> missing, columns |-> << >>, rows |-> << >>]

\* Lines 195-209 for the renamed table and its missing columns.
CheckAndType(renamed, missing) ==
  IF missing # << >> THEN Raised("ValueError", missing)
  ELSE IF AmbiguousNumeric(renamed.columns) THEN Raised("TypeError", << >>)
  ELSE IF AmbiguousDate(renamed.columns) THEN Raised("AttributeError", << >>)
  ELSE Returned(TypesAndDerived(renamed))

\* Lines 178-209 for the table the date step left.
RenameAndCheck(dated, renamed_columns) ==
  CheckAndType([columns |-> renamed_columns, rows |-> dated.rows],
               MissingColumns(renamed_columns))

AfterDateStep(dated) ==
  RenameAndCheck(dated, RenameStep(dated.columns))

\* The whole function: the returned DataFrame, or the exception raised.
load_data_from_excel(cols, rws) ==
  AfterDateStep(DateStep(cols, rws))

\* ------------------------------------------------------------- sheets

\* The header row of the SAP export the dashboard was written for (the first
\* candidate of every field), and two other header rows of the same ten columns.
SapHeaders ==
  << <<"F","e","c","h","a"," ","d","e"," ","c","o","n","t","a","b","i","l","i","z","a","c","i","oacute","n">>, <<"N","uacute","m","e","r","o"," ","i","n","t","e","r","n","o">>, <<"C","oacute","d","i","g","o"," ","d","e"," ","c","l","i","e","n","t","e","/","p","r","o","v","e","e","d","o","r">>,
     <<"N","o","m","b","r","e"," ","d","e"," ","c","l","i","e","n","t","e","/","p","r","o","v","e","e","d","o","r">>, <<"S","l","p","N","a","m","e">>, <<"I","t","e","m","C","o","d","e">>, <<"D","s","c","r","i","p","t","i","o","n">>,
     <<"Q","u","a","n","t","i","t","y">>, <<"P","r","i","c","e">>, <<"V","e","n","t","a">> >>

CanonicalHeaders ==
  << Fecha, Documento, CodCliente, Cliente, Vendedor, ItemCode, Producto,
     Cantidad, PrecioUnit, VentaCLP >>

FieldHeaders ==
  << <<"F","e","c","h","a">>, <<"D","o","c","N","u","m">>, <<"C","a","r","d","C","o","d","e">>, <<"C","a","r","d","N","a","m","e">>, <<"V","e","n","d","e","d","o","r">>, <<"I","t","e","m">>,
     <<"D","e","s","c","r","i","p","t","i","o","n">>, <<"C","a","n","t","i","d","a","d">>, <<"P","r","e","c","i","o">>, <<"T","o","t","a","l">> >>

Layouts ==
  {SapHeaders, CanonicalHeaders, FieldHeaders}

\* Headers a sheet may carry instead of, or besides, those of its layout.
HeaderPool ==
  { <<"C","l","i","e","n","t","e"," ","P","r","i","n","c","i","p","a","l">>, <<"N","o","m","b","r","e"," ","d","e"," ","c","l","i","e","n","t","e"," ","S","N">>, <<"C","a","r","d","N","a","m","e">>, <<"C","a","n","t","i","d","a","d">>,
    <<"P","r","e","c","i","o"," ","V","e","n","t","a">>, <<"T","o","t","a","l"," ","N","e","t","o">>, <<"F","E","C","H","A">>, <<"F","e","c","h","a"," ","V","e","n","t","a">>, <<"O","b","s">> }

\* Rows of a sheet, one cell per column of the layout: date, document,
\* customer code, customer name, salesperson, item code, description,
\* quantity, unit price, line total.
RowPool ==
  << << Date(20250105), Num(1), Str(<<"C","1">>), Str(<<"A","c","m","e">>), Str(<<"A","n","a">>), Str(<<"I","1">>),
        Str(<<"1","1","R","2","2",".","5">>), Num(2), Num(100), Num(200) >>,
     << Date(20250210), Num(2), Str(<<"C","1">>), Str(<<"A","c","m","e">>), Str(<<"A","n","a">>), Str(<<"I","2">>),
        Str(<<"1","1","r","2","2","3","5">>), Num(0), Num(50), Num(0) >>,
     << Str(<<"s","/","f">>), Num(3), Str(<<"C","2">>), Str(<<"B","o","s","a">>), Str(<<"B","e","t","o">>), Str(<<"I","3">>),
        Str(<<"P","B","A","6","0">>), Num(1), Num(10), Num(10) >>,
     << Date(20250520), Num(4), NA, NA, Str(<<"B","e","t","o">>), NA,
        NA, Str(<<"n","/","a">>), NA, Num(30) >>,
     << Date(20250210), Num(2), Str(<<"C","2">>), Str(<<"B","o","s","a">>), Str(<<"B","e","t","o">>), Str(<<"I","3">>),
        Str(<<"P","B","A","6","0"," ","(","R",")">>), Num(1), Num(40), Num(40) >> >>

\* ------------------------------------------------------ one script run

\* str.strip() for the blanks of a search text.
RECURSIVE LStrip(_)
LStrip(t) ==
  IF t # << >> /\ Head(t) = " " THEN LStrip(Tail(t)) ELSE t

RECURSIVE RStrip(_)
RStrip(t) ==
  IF t # << >> /\ t[Len(t)] = " " THEN RStrip(SubSeq(t, 1, Len(t) - 1)) ELSE t

Strip(t) ==
  RStrip(LStrip(t))

\* Series.str.contains(pat, case=False, na=False) leaves regex=True, so pat is
\* compiled by re with IGNORECASE. The search texts of the model use two
\* metacharacters: "." (any character) and an unclosed "(", which re.compile
\* rejects ("missing ), unterminated subpattern").
RegexCompiles(pat) ==
  \A i \in 1..Len(pat) : pat[i] # "("

RegexMatchesAt(pat, text, off) ==
  \A i \in 1..Len(pat) : pat[i] = "." \/ LowerChar(pat[i]) = LowerChar(text[off + i])

\* re.search: the pattern matches somewhere in text.
RegexSearch(pat, text) ==
  \E off \in 0..(Len(text) - Len(pat)) : RegexMatchesAt(pat, text, off)

\* One element of the mask of line 296.
StrContains(cell, pat) ==
  IF cell.k = "str" THEN RegexSearch(pat, cell.s) ELSE FALSE

\* Where df keeps the columns the script reads by name.
Positions(cols) ==
  [Fecha |-> ColIndex(cols, Fecha), Documento |-> ColIndex(cols, Documento),
   Cliente |-> ColIndex(cols, Cliente), Vendedor |-> ColIndex(cols, Vendedor),
   Producto |-> ColIndex(cols, Producto), Cantidad |-> ColIndex(cols, Cantidad),
   VentaCLP |-> ColIndex(cols, VentaCLP)]

\* Mask with the end of the date range excluded.
MaskExclusiveEnd(at, r, w) ==
  /\ r[at.Fecha].n >= w.d1
  /\ r[at.Fecha].n < w.d2
  /\ (w.sel_clientes # {} =>
        (r[at.Cliente].k = "str" /\ r[at.Cliente].s \in w.sel_clientes))
  /\ (w.sel_vendedores # {} =>
        (r[at.Vendedor].k = "str" /\ r[at.Vendedor].s \in w.sel_vendedores))
  /\ (Strip(w.txt_producto) # << >> =>
        StrContains(r[at.Producto], Strip(w.txt_producto)))

\* The mask of lines 290-296 for one row of df.
Mask(at, r, w) ==
  /\ r[at.Fecha].n >= w.d1
  /\ r[at.Fecha].n <= w.d2
  /\ (w.sel_clientes # {} =>
        (r[at.Cliente].k = "str" /\ r[at.Cliente].s \in w.sel_clientes))
  /\ (w.sel_vendedores # {} =>
        (r[at.Vendedor].k = "str" /\ r[at.Vendedor].s \in w.sel_vendedores))
  /\ (Strip(w.txt_producto) # << >> =>
        StrContains(r[at.Producto], Strip(w.txt_producto)))

\* Series.sum() of the numeric column at position j (0 for no rows).
RECURSIVE SumOf(_, _)
SumOf(rws, j) ==
  IF rws = << >> THEN 0 ELSE Head(rws)[j].n + SumOf(Tail(rws), j)

\* Series.nunique(): the distinct values, missing ones not counted.
NUnique(rws, j) ==
  Cardinality({rws[i][j] : i \in 1..Len(rws)} \ {NA})

\* Python's max(a, b).
Max(a, b) ==
  IF a >= b THEN a ELSE b

\* Lines 303-307.
Kpis(at, rws) ==
  [total_clp |-> SumOf(rws, at.VentaCLP),
   total_qty |-> SumOf(rws, at.Cantidad),
   avg_ticket |-> Ratio(SumOf(rws, at.VentaCLP), Max(SumOf(rws, at.Cantidad), 1)),
   docs |-> NUnique(rws, at.Documento),
   custs |-> NUnique(rws, at.Cliente)]

\* DataFrame.groupby(gcols): dropna is left at its default True, so the group
\* keys are the distinct values of the column (at position g) that are not
\* missing.
GroupKeys(rws, g) ==
  {rws[i][g] : i \in 1..Len(rws)} \ {NA}

\* Lines 457-465 for the group of one key.
GroupRow(at, rws, g, key) ==
  LET InGroup(r) == r[g] = key
      members == SelectSeq(rws, InGroup)
      venta == SumOf(members, at.VentaCLP)
      unidades == SumOf(members, at.Cantidad)
  IN  [key |-> key,
       VentaCLP |-> venta,
       Unidades |-> unidades,
       Docs |-> NUnique(members, at.Documento),
       Clientes |-> NUnique(members, at.Cliente),
       PrecioPromCLP |-> IF unidades > 0 THEN Ratio(venta, unidades) ELSE NA]

\* Line 466: the orders sort_values("VentaCLP", ascending=False) may give the
\* group rows (the order of rows with equal VentaCLP is not fixed by the code).
SortedDescending(groups) ==
  {q \in [1..Cardinality(groups) -> groups] :
     /\ \A i, j \in DOMAIN q : i # j => q[i] # q[j]
     /\ \A i, j \in DOMAIN q : i < j => q[i].VentaCLP >= q[j].VentaCLP}

Summaries(at, rws, g) ==
  SortedDescending({GroupRow(at, rws, g, key) : key \in GroupKeys(rws, g)})

\* The options of the "Agrupar analisis por" selectbox, lines 282-286.
GroupOptions ==
  {Mes, Trimestre, Cliente, Vendedor, Producto}

\* Lines 272-273: the options of a multiselect, from the column at position j.
Options(rws, j) ==
  {rws[i][j].s : i \in {k \in 1..Len(rws) : rws[k][j].k = "str"}}

\* Texts typed into "Buscar producto (contiene)".
SearchTexts ==
  { << >>, <<" ">>, <<"r","2","2">>, <<"2","2",".","5">>, <<"6","0"," ","(">> }

\* Lines 268-270: the days the range widget is set to are days of the data.
DayOptions(rws, j) ==
  {rws[i][j].n : i \in 1..Len(rws)}

VARIABLES
  columns,   \* header row of the sheet "Data venta" as read by read_excel
  rows,      \* its rows; rows[i][j] is the cell under columns[j]
  edits,     \* header changes made to the layout so far
  pc,        \* "sheet", "loaded", "stopped", "reloaded", "rendered", "failed"
  df,        \* the DataFrame returned by load_data_from_excel
  err,       \* the exception load_data_from_excel raised
  df2,       \* the result of loading df again
  ui,        \* the sidebar widgets' values in the last script run
  dff,       \* rows of the filtered view
  kpi,       \* total_clp, total_qty, avg_ticket, docs, custs
  summary    \* the "Resumen agregado" table

vars ==
  << columns, rows, edits, pc, df, err, df2, ui, dff, kpi, summary >>

MaxEdits ==
  1

MaxRows ==
  2

NoTable ==
  [columns |-> << >>, rows |-> << >>]

NoError ==
  [raised |-> "no", missing |-> << >>]

NoResult ==
  [raised |-> "none", missing |-> << >>, columns |-> << >>, rows |-> << >>]

NoWidgets ==
  [d1 |-> 0, d2 |-> 0, sel_clientes |-> {}, sel_vendedores |-> {},
   txt_producto |-> << >>, group_main |-> << >>]

NoKpis ==
  [total_clp |-> 0, total_qty |-> 0, avg_ticket |-> NA, docs |-> 0, custs |-> 0]

NothingLoaded ==
  /\ edits = 0
  /\ pc = "sheet"
  /\ df = NoTable
  /\ err = NoError
  /\ df2 = NoResult
  /\ ui = NoWidgets
  /\ dff = << >>
  /\ kpi = NoKpis
  /\ summary = << >>

SchemaRows ==
  << RowPool[1], RowPool[3] >>

\* Another export names column j differently.
RenameHeader ==
  /\ pc = "sheet"
  /\ edits < MaxEdits
  /\ \E j \in 1..Len(columns), h \in HeaderPool :
       /\ ~ HasColumn(columns, h)
       /\ columns' = [columns EXCEPT ![j] = h]
  /\ edits' = edits + 1
  /\ UNCHANGED << rows, pc, df, err, df2, ui, dff, kpi, summary >>

\* Another export has one more column, first or last.
InsertHeader ==
  /\ pc = "sheet"
  /\ edits < MaxEdits
  /\ \E h \in HeaderPool :
       /\ ~ HasColumn(columns, h)
       /\ \/ /\ columns' = << h >> \o columns
             /\ rows' = AsSeq([i \in 1..Len(rows) |-> << NA >> \o rows[i]])
          \/ /\ columns' = Append(columns, h)
             /\ rows' = AsSeq([i \in 1..Len(rows) |-> Append(rows[i], NA)])
  /\ edits' = edits + 1
  /\ UNCHANGED << pc, df, err, df2, ui, dff, kpi, summary >>

\* Another export lacks column j.
DropHeader ==
  /\ pc = "sheet"
  /\ edits < MaxEdits
  /\ \E j \in 1..Len(columns) :
       /\ columns' = SubSeq(columns, 1, j - 1) \o SubSeq(columns, j + 1, Len(columns))
       /\ rows' = AsSeq([i \in 1..Len(rows) |->
                     SubSeq(rows[i], 1, j - 1) \o SubSeq(rows[i], j + 1, Len(rows[i]))])
  /\ edits' = edits + 1
  /\ UNCHANGED << pc, df, err, df2, ui, dff, kpi, summary >>

\* The sheet has one more row, taken further down RowPool than its last one.
AddRow ==
  /\ pc = "sheet"
  /\ Len(rows) < MaxRows
  /\ \E i \in 1..Len(RowPool) :
       /\ IF rows = << >> THEN TRUE ELSE \A k \in 1..i : rows[Len(rows)] # RowPool[k]
       /\ rows' = Append(rows, RowPool[i])
  /\ UNCHANGED << columns, edits, pc, df, err, df2, ui, dff, kpi, summary >>

\* Lines 256-261 for what load_data_from_excel returned or raised: df is
\* bound, or the error is shown and the script stops.
CallSite(r) ==
  IF r.raised = "no"
  THEN /\ pc' = "loaded"
       /\ df' = [columns |-> r.columns, rows |-> r.rows]
       /\ err' = NoError
  ELSE /\ pc' = "stopped"
       /\ df' = NoTable
       /\ err' = [raised |-> r.raised, missing |-> r.missing]

\* Lines 256-261: the page loads the sheet, and stops on any exception.
Load ==
  /\ pc = "sheet"
  /\ CallSite(load_data_from_excel(columns, rows))
  /\ UNCHANGED << columns, rows, edits, df2, ui, dff, kpi, summary >>

\* load_data_from_excel applied to the table it returned.
Reload ==
  /\ pc = "loaded"
  /\ df2' = load_data_from_excel(df.columns, df.rows)
  /\ pc' = "reloaded"
  /\ UNCHANGED << columns, rows, edits, df, err, ui, dff, kpi, summary >>

\* Lines 266-466: one run of the script below the load, with the widget
\* values w. The run ends at line 296 when the search text does not compile.
Run(w) ==
  /\ ui' = w
  /\ IF Strip(w.txt_producto) # << >> /\ ~ RegexCompiles(Strip(w.txt_producto))
     THEN /\ pc' = "failed"
          /\ dff' = << >>
          /\ kpi' = NoKpis
          /\ summary' = << >>
     ELSE LET at == Positions(df.columns)
              Keep(r) == Mask(at, r, w)
              view == SelectSeq(df.rows, Keep)
          IN  /\ pc' = "rendered"
              /\ dff' = view
              /\ kpi' = Kpis(at, view)
              /\ summary' \in Summaries(at, view, ColIndex(df.columns, w.group_main))
  /\ UNCHANGED << columns, rows, edits, df, err, df2 >>

\* Series.min() / Series.max() of the dates, lines 268-269.
MinDay(days) ==
  CHOOSE a \in days : \A b \in days : a <= b

MaxDay(days) ==
  CHOOSE a \in days : \A b \in days : a >= b

\* The first run after the load: every widget at its default value.
FirstRun ==
  /\ pc = "loaded"
  /\ df.rows # << >>
  /\ LET days == DayOptions(df.rows, ColIndex(df.columns, Fecha))
     IN  Run([d1 |-> MinDay(days), d2 |-> MaxDay(days),
              sel_clientes |-> {}, sel_vendedores |-> {},
              txt_producto |-> << >>, group_main |-> Mes])

\* Streamlit runs the script again each time the user changes one widget.
ChangeDates ==
  /\ pc \in {"rendered", "failed"}
  /\ LET days == DayOptions(df.rows, ColIndex(df.columns, Fecha))
     IN  \E d1 \in days, d2 \in days :
           /\ d1 <= d2
           /\ Run([ui EXCEPT !.d1 = d1, !.d2 = d2])

ChangeClientes ==
  /\ pc \in {"rendered", "failed"}
  /\ \E sel \in SUBSET Options(df.rows, ColIndex(df.columns, Cliente)) :
       Run([ui EXCEPT !.sel_clientes = sel])

ChangeVendedores ==
  /\ pc \in {"rendered", "failed"}
  /\ \E sel \in SUBSET Options(df.rows, ColIndex(df.columns, Vendedor)) :
       Run([ui EXCEPT !.sel_vendedores = sel])

ChangeSearch ==
  /\ pc \in {"rendered", "failed"}
  /\ \E txt \in SearchTexts : Run([ui EXCEPT !.txt_producto = txt])

ChangeGroup ==
  /\ pc \in {"rendered", "failed"}
  /\ \E g \in GroupOptions : Run([ui EXCEPT !.group_main = g])

\* Header resolution: the three layouts, each with at most MaxEdits headers
\* renamed, inserted or dropped, loaded once and then loaded again.
InitSchema ==
  /\ columns \in Layouts
  /\ rows = SchemaRows
  /\ NothingLoaded

NextSchema ==
  \/ RenameHeader
  \/ InsertHeader
  \/ DropHeader
  \/ Load
  \/ Reload

SpecSchema ==
  InitSchema /\ [][NextSchema]_vars

\* The dashboard on the SAP export: any sheet of at most MaxRows rows of
\* RowPool (in RowPool's order), loaded, then run again at each widget change.
Init ==
  /\ columns = SapHeaders
  /\ rows = << >>
  /\ NothingLoaded

Next ==
  \/ AddRow
  \/ Load
  \/ FirstRun
  \/ ChangeDates
  \/ ChangeClientes
  \/ ChangeVendedores
  \/ ChangeSearch
  \/ ChangeGroup

Spec ==
  Init /\ [][Next]_vars

\* ------------------------------------------------ header resolution

\* The candidate lists of the ten canonical fields, by canonical name.
CandidatesOf(name) ==
  IF name = Fecha THEN DateCandidates
  ELSE FieldCandidates[CHOOSE f \in 1..Len(FieldCandidates) :
                         FieldCandidates[f].target = name].cands

CanonicalNames ==
  {Fecha} \cup {FieldCandidates[f].target : f \in 1..Len(FieldCandidates)}

RequiredNames ==
  {required[i] : i \in 1..Len(required)}

\* Header h equals candidate c, or contains it, ignoring case.
EqualsIgnoringCase(h, c) ==
  Lower(h) = Lower(c)

ContainsIgnoringCase(h, c) ==
  Contains(Lower(h), Lower(c))

\* Some header of cols matches some candidate of the field, exactly or by
\* substring (an exact match is a substring match), ignoring case.
Resolvable(cols, name) ==
  LET low == LowerAll(cols)
      cands == LowerAll(CandidatesOf(name))
  IN  \E n \in 1..Len(cands), j \in 1..Len(low) : Contains(low[j], cands[n])

UnresolvedRequired ==
  {name \in RequiredNames : ~ Resolvable(columns, name)}

Least(S) ==
  CHOOSE x \in S : \A y \in S : x <= y

\* What C10 says _safe_col returns for cols and candidates, as a set of
\* admissible results (headers and candidates compared in lower case).
TwoPhaseResult(cols, candidates) ==
  LET low == LowerAll(cols)
      cands == LowerAll(candidates)
      Exact(n) == {j \in 1..Len(low) : low[j] = cands[n]}
      Fuzzy(n) == {j \in 1..Len(low) : Contains(low[j], cands[n])}
      exact == {n \in 1..Len(cands) : Exact(n) # {}}
      fuzzy == {n \in 1..Len(cands) : Fuzzy(n) # {}}
  IN  IF exact # {} THEN {cols[j] : j \in Exact(Least(exact))}
      ELSE IF fuzzy # {} THEN {cols[Least(Fuzzy(Least(fuzzy)))]}
      ELSE {None}

\* C10: _safe_col works in two strict phases. If some candidate equals some
\* header ignoring case, the result is a header equal to the earliest such
\* candidate; otherwise it is the first header, in column order, containing
\* the earliest candidate that any header contains; it is None only when no
\* header contains any candidate. Checked for the header row of every sheet
\* about to be loaded and the candidate list of every canonical field.
C10_SafeColTwoPhases ==
  pc = "sheet" =>
    \A name \in CanonicalNames :
      LET got == _safe_col(columns, CandidatesOf(name))
      IN  /\ got \in TwoPhaseResult(columns, CandidatesOf(name))
          /\ (got = None <=> ~ Resolvable(columns, name))

\* C10's case: no header equals a VentaCLP candidate, an earlier column contains
\* the later candidate "Total", a later column contains the earlier candidate
\* "Venta", and _safe_col returns the later column.
C10_Witness ==
  /\ pc = "sheet"
  /\ HasColumn(columns, <<"T","o","t","a","l"," ","N","e","t","o">>)
  /\ HasColumn(columns, VentaCLP)
  /\ ColIndex(columns, <<"T","o","t","a","l"," ","N","e","t","o">>) < ColIndex(columns, VentaCLP)
  /\ _safe_col(columns, CandidatesOf(VentaCLP)) = VentaCLP

\* C1: whenever some required field is resolvable neither exactly nor by
\* substring from the sheet's headers, the load raises the missing-columns
\* error, the fields it lists are exactly the unresolvable required fields,
\* and the page stops.
C1_MissingAreExactlyUnresolved ==
  (pc \in {"loaded", "stopped", "reloaded"} /\ UnresolvedRequired # {}) =>
    /\ pc = "stopped"
    /\ err.raised = "ValueError"
    /\ {err.missing[i] : i \in 1..Len(err.missing)} = UnresolvedRequired
    /\ dff = << >>

\* C2: whenever every required field has a header matching one of its
\* candidates, the load succeeds and each required canonical name is carried by
\* exactly one column of the result, the column whose header matched a
\* candidate of that field.
C2_ResolvableSheetLoads ==
  (pc \in {"loaded", "stopped"} /\ UnresolvedRequired = {}) =>
    /\ pc = "loaded"
    /\ \A name \in RequiredNames :
         /\ Count(df.columns, name) = 1
         /\ \E n \in 1..Len(CandidatesOf(name)) :
              ContainsIgnoringCase(columns[ColIndex(df.columns, name)], CandidatesOf(name)[n])

\* C3: loading the table a load returned (its columns carry the canonical
\* names) succeeds and returns the same column names in the same order and the
\* same field values.
C3_ReloadIsIdentity ==
  pc = "reloaded" =>
    /\ df2.raised = "no"
    /\ df2.columns = df.columns
    /\ df2.rows = df.rows

\* C4: on a sheet whose customer column is headed "Cliente Principal" (its only
\* header that mentions the customer, and no header equal to a customer-name
\* candidate), that column is resolved to Cliente and the load does not report
\* Cliente as missing.
C4_ClientePrincipalResolved ==
  (/\ pc \in {"loaded", "stopped"}
   /\ HasColumn(columns, <<"C","l","i","e","n","t","e"," ","P","r","i","n","c","i","p","a","l">>)
   /\ \A j \in 1..Len(columns) :
        ContainsIgnoringCase(columns[j], Cliente) => columns[j] = <<"C","l","i","e","n","t","e"," ","P","r","i","n","c","i","p","a","l">>
   /\ \A n \in 1..Len(CandidatesOf(Cliente)), j \in 1..Len(columns) :
        ~ EqualsIgnoringCase(columns[j], CandidatesOf(Cliente)[n])) =>
    /\ _safe_col(columns, CandidatesOf(Cliente)) = <<"C","l","i","e","n","t","e"," ","P","r","i","n","c","i","p","a","l">>
    /\ \A i \in 1..Len(err.missing) : err.missing[i] # Cliente

\* ------------------------------------------------- rows, filter, KPIs

\* A page that went past the load.
Loaded ==
  pc \in {"loaded", "rendered", "failed"}

\* The rows of the sheet whose date cell is a date, in sheet order. (Under
\* Spec the sheet has the SAP headers: the date is column 1, and columns 1 to
\* 7 are left as read by every later step of the load.)
RowsWithDate ==
  LET IsDate(r) == r[1].k = "date"
  IN  SelectSeq(rows, IsDate)

\* C8: after a successful load every row of df has a date, and the rows of df
\* are the sheet's rows whose date parsed, all of them, in sheet order.
C8_OnlyDatedRowsKept ==
  Loaded =>
    /\ \A i \in 1..Len(df.rows) : df.rows[i][ColIndex(df.columns, Fecha)].k = "date"
    /\ Len(df.rows) = Len(RowsWithDate)
    /\ \A i \in 1..Len(df.rows) : SubSeq(df.rows[i], 1, 7) = SubSeq(RowsWithDate[i], 1, 7)

\* C8's case: a sheet with a row whose date does not parse and a row whose date
\* does, loaded.
C8_Witness ==
  /\ pc = "loaded"
  /\ Len(df.rows) >= 1
  /\ Len(df.rows) < Len(rows)

\* The row's value in the named column is one of the selected texts.
IsIn(r, name, sel) ==
  \E t \in sel : r[ColIndex(df.columns, name)] = Str(t)

\* C5: with no search text, dff is the rows of df, in df's order, dated within
\* [d1, d2] inclusive, whose Cliente is selected if any Cliente is selected and
\* whose Vendedor is selected if any Vendedor is selected.
C5_FilteredView ==
  (pc = "rendered" /\ ui.txt_producto = << >>) =>
    LET Day(r) == r[ColIndex(df.columns, Fecha)].n
        Wanted(r) == /\ ui.d1 <= Day(r)
                     /\ Day(r) <= ui.d2
                     /\ (ui.sel_clientes = {} \/ IsIn(r, Cliente, ui.sel_clientes))
                     /\ (ui.sel_vendedores = {} \/ IsIn(r, Vendedor, ui.sel_vendedores))
    IN  dff = SelectSeq(df.rows, Wanted)

\* C5's case: a range that ends on the day of a row it keeps and leaves a later
\* row out, with a customer selected and no search text.
C5_Witness ==
  /\ pc = "rendered"
  /\ ui.txt_producto = << >>
  /\ ui.sel_clientes # {}
  /\ \E i \in 1..Len(dff) : dff[i][ColIndex(df.columns, Fecha)].n = ui.d2
  /\ Len(dff) < Len(df.rows)

RECURSIVE SumVenta(_)
SumVenta(groups) ==
  IF groups = << >> THEN 0 ELSE Head(groups).VentaCLP + SumVenta(Tail(groups))

\* C6: the VentaCLP of the groups of the summary table add up to the VentaCLP
\* of the rows of the filtered view, whatever the grouping column, also when
\* rows have no value in it.
C6_GroupsConserveVenta ==
  pc = "rendered" => SumVenta(summary) = SumOf(dff, ColIndex(df.columns, VentaCLP))

\* C7: when the filtered view is empty the four summed KPIs are 0, and when
\* its quantities add up to 0 the weighted average price avg_ticket and every
\* group's PrecioPromCLP are undefined (missing), not numbers.
C7_EmptyRatiosUndefined ==
  pc = "rendered" =>
    /\ (dff = << >> =>
          kpi.total_clp = 0 /\ kpi.total_qty = 0 /\ kpi.docs = 0 /\ kpi.custs = 0)
    /\ (kpi.total_qty = 0 => kpi.avg_ticket = NA)
    /\ \A i \in 1..Len(summary) : summary[i].Unidades = 0 => summary[i].PrecioPromCLP = NA

\* The text occurs in the cell's text, character by character, ignoring case.
ContainsLiterally(cell, t) ==
  cell.k = "str" /\ Contains(Lower(cell.s), Lower(t))

\* C9: with a search text that is not blank, the run does not fail and dff is
\* the rows of df that pass the date, Cliente and Vendedor criteria and whose
\* Producto is present and contains the text literally, ignoring case.
C9_LiteralProductSearch ==
  (pc \in {"rendered", "failed"} /\ Strip(ui.txt_producto) # << >>) =>
    LET Day(r) == r[ColIndex(df.columns, Fecha)].n
        Wanted(r) == /\ ui.d1 <= Day(r)
                     /\ Day(r) <= ui.d2
                     /\ (ui.sel_clientes = {} \/ IsIn(r, Cliente, ui.sel_clientes))
                     /\ (ui.sel_vendedores = {} \/ IsIn(r, Vendedor, ui.sel_vendedores))
                     /\ ContainsLiterally(r[ColIndex(df.columns, Producto)],
                                          Strip(ui.txt_producto))
    IN  /\ pc = "rendered"
        /\ dff = SelectSeq(df.rows, Wanted)

====
